---- MODULE Spec2Model ----
(***************************************************************************)
(* Model of bot.py: the start-up block (__main__), the IcifiedBot          *)
(* constructor, and the photo handler handle_photo with the adapter        *)
(* process_image and the fetcher download_image.  Every awaited external   *)
(* call is one step that either returns or raises.                         *)
(***************************************************************************)
EXTENDS Integers, Sequences, FiniteSets, TLC

\* ------------------------------------------------------------------ bounds
NumEvents == 2
MaxVariants == 3
MaxOutputs == 2
MaxCommands == 3

Events == 1..NumEvents
Min(S) == CHOOSE x \in S : \A y \in S : x <= y

\* ------------------------------------------------------- program constants
None == "<None>"
Unbound == "<unbound>"

ProcessingText == "Icifying your photo... This may take 30-60 seconds!"
SuccessCaption == "Your photo has been ICIFIED! Share your iced out masterpiece!"
FailEditText == "Sorry, something went wrong processing your image. Please try again!"
FailSendText == "Error processing your photo. Please try again or contact support."

WelcomeText == "Welcome to the ICIFIED Bot! ... Just send a photo to get started!"
HelpText == "ICIFIED Bot Help ... Send a photo to try it out!"
InstructionsText == "Send me a photo to ice out! I'll add diamond grillz and a luxury watch while maintaining the original style and lighting."
ButtonLabel == "Send Photo to Ice Out!"

ModelName == "black-forest-labs/flux-schnell"
Prompt == "person with luxury diamond watch on wrist and diamond grillz teeth, ice out, jewelry, bling, expensive, high quality, photorealistic, luxury lifestyle"
Width == 768
Height == 768
NumInferenceSteps == 4
GuidanceScale == "3.5"
DataUrlPrefix == "data:image/jpeg;base64,"

HandlerSet ==
    { <<"command", "start", "start_command">>,
      <<"command", "help", "help_command">>,
      <<"message", "PHOTO", "handle_photo">>,
      <<"callback_query", "*", "handle_callback">> }

\* ------------------------------------------------------------ input domains
\* os.getenv gives None for an unset variable, "" for an empty one.
TokenValues == {None, "", "tok"}

Sizes == {100, 400, 800}
Variant(s) == [width |-> s, height |-> s]

RECURSIVE SeqsUpTo(_, _)
SeqsUpTo(S, n) ==
    IF n = 0 THEN {<<>>}
    ELSE LET shorter == SeqsUpTo(S, n - 1)
         IN  shorter \cup
             { Append(q[1], q[2]) :
                 q \in {r \in shorter : Len(r) = n - 1} \X S }

IsDistinct(q) ==
    \A i, j \in 1..Len(q) : i # j => q[i] # q[j]

\* A photo message carries one or more resolution variants (filters.PHOTO
\* only lets messages with a non-empty photo list through).
PhotoInputs ==
    { [i \in 1..Len(q) |-> Variant(q[i])] :
        q \in {r \in SeqsUpTo(Sizes, MaxVariants) : r # <<>> /\ IsDistinct(r)} }

Refs == {"", "https://example/out.png"}

\* What replicate_client.run can produce: an exception, None, a sequence
\* (possibly empty), or a truthy object that has no len().
RemoteOutcomes ==
    { [kind |-> "raise", items |-> <<>>],
      [kind |-> "none", items |-> <<>>],
      [kind |-> "nolen", items |-> <<>>] }
    \cup { [kind |-> "seq", items |-> q] : q \in SeqsUpTo(Refs, MaxOutputs) }

NoOutput == [kind |-> "unset", items |-> <<>>]

\* ------------------------------------------------------------ pure helpers
B64Alphabet ==
    << "A","B","C","D","E","F","G","H","I","J","K","L","M","N","O","P",
       "Q","R","S","T","U","V","W","X","Y","Z","a","b","c","d","e","f",
       "g","h","i","j","k","l","m","n","o","p","q","r","s","t","u","v",
       "w","x","y","z","0","1","2","3","4","5","6","7","8","9","+","/" >>

B64Char(i) == B64Alphabet[i + 1]

\* base64.b64encode over a sequence of octets: 3 octets -> 4 characters,
\* a final group of 1 or 2 octets is padded with "=".
RECURSIVE B64Encode(_)
B64Encode(bytes) ==
    IF Len(bytes) = 0 THEN <<>>
    ELSE IF Len(bytes) = 1 THEN
        << B64Char(bytes[1] \div 4), B64Char((bytes[1] % 4) * 16), "=", "=" >>
    ELSE IF Len(bytes) = 2 THEN
        << B64Char(bytes[1] \div 4),
           B64Char((bytes[1] % 4) * 16 + bytes[2] \div 16),
           B64Char((bytes[2] % 16) * 4), "=" >>
    ELSE
        << B64Char(bytes[1] \div 4),
           B64Char((bytes[1] % 4) * 16 + bytes[2] \div 16),
           B64Char((bytes[2] % 16) * 4 + bytes[3] \div 64),
           B64Char(bytes[3] % 64) >>
        \o B64Encode(SubSeq(bytes, 4, Len(bytes)))

\* f"data:image/jpeg;base64,{image_b64}"
DataUrl(bytes) == <<DataUrlPrefix>> \o B64Encode(bytes)

\* Mutant: the output size follows the input image instead of being fixed.
RequestPayload_FromInput(bytes) ==
    [ model |-> ModelName,
      prompt |-> Prompt,
      image |-> DataUrl(bytes),
      width |-> bytes[1] * 256 + bytes[2],
      height |-> bytes[1] * 256 + bytes[2],
      num_inference_steps |-> NumInferenceSteps,
      guidance_scale |-> GuidanceScale ]

\* The request handed to replicate_client.run.
RequestPayload(bytes) ==
    [ model |-> ModelName,
      prompt |-> Prompt,
      image |-> DataUrl(bytes),
      width |-> Width,
      height |-> Height,
      num_inference_steps |-> NumInferenceSteps,
      guidance_scale |-> GuidanceScale ]

\* The platform's file store: the octets behind a variant's file id (the
\* big-endian width, so that distinct variants have distinct contents).
FileBytes(v) == << v.width \div 256, v.width % 256 >>

\* The octets an HTTP GET of a result reference yields.
UrlBytes(url) == IF url = "https://example/out.png" THEN <<137, 80, 78>> ELSE <<71, 73>>

\* update.message.photo[-1]
SelectPhoto(photo) == photo[Len(photo)]

\* Python truthiness of the remote response and of the returned reference.
OutputTruthy(out) ==
    \/ out.kind = "nolen"
    \/ out.kind = "seq" /\ Len(out.items) > 0

Truthy(s) == s \notin {None, ""}

\* Mutant: process_image without its try/except, the remote exception propagates.
ProcessImageOutcome_NoCatch(out) ==
    IF out.kind = "raise" THEN
        [raised |-> TRUE, value |-> None, logged |-> FALSE]
    ELSE IF out.kind = "seq" /\ Len(out.items) > 0 THEN
        [raised |-> FALSE, value |-> out.items[1], logged |-> FALSE]
    ELSE
        [raised |-> FALSE, value |-> None, logged |-> out.kind = "nolen"]

\* Mutant: process_image returns the last output instead of the first.
ProcessImageOutcome_Last(out) ==
    IF out.kind = "seq" /\ Len(out.items) > 0 THEN
        [raised |-> FALSE, value |-> out.items[Len(out.items)], logged |-> FALSE]
    ELSE
        [raised |-> FALSE, value |-> None, logged |-> out.kind \in {"raise", "nolen"}]

\* process_image after the remote call came back with `out`: the whole body
\* is inside try/except Exception, so a raising call, or len() raising on an
\* object without a length, is logged and turned into None.
ProcessImageOutcome(out) ==
    IF out.kind = "raise" THEN
        [raised |-> FALSE, value |-> None, logged |-> TRUE]
    ELSE IF OutputTruthy(out) THEN
        IF out.kind = "nolen" THEN
            [raised |-> FALSE, value |-> None, logged |-> TRUE]
        ELSE IF Len(out.items) > 0 THEN
            [raised |-> FALSE, value |-> out.items[1], logged |-> FALSE]
        ELSE
            [raised |-> FALSE, value |-> None, logged |-> FALSE]
    ELSE
        [raised |-> FALSE, value |-> None, logged |-> FALSE]

\* Mutant: handle_photo fetches whatever process_image returned.
AfterProcess_AlwaysFetch(result) == "fetch"

\* `if result_url:` in handle_photo: the next awaited call.
AfterProcess(result) == IF Truthy(result) THEN "fetch" ELSE "edit"

\* Mutant: the except block shows the exception to the user.
ExceptNoticeText_Detail(e) == e

\* The text of the notice sent from the except block; it does not use `e`.
ExceptNoticeText(e) == FailSendText

\* Mutant: `and` in place of `or`.
MissingSecrets_And(t, r) == ~Truthy(t) /\ ~Truthy(r)

\* `if not TELEGRAM_TOKEN or not REPLICATE_TOKEN`
MissingSecrets(t, r) == ~Truthy(t) \/ ~Truthy(r)

\* ------------------------------------------------------------------- state
VARIABLES
    mainPc,          \* position in the __main__ block
    telegramEnv,     \* os.environ["TELEGRAM_BOT_TOKEN"] (None if unset)
    replicateEnv,    \* os.environ["REPLICATE_API_TOKEN"] (None if unset)
    envWrites,       \* number of assignments to os.environ
    stdout,          \* the lines printed
    exitCode,        \* -1 while the process runs, else its exit status
    bot,             \* the IcifiedBot instance bound in __main__, or NoBot
    pc,              \* per photo event: the next awaited call of handle_photo
    update,          \* per photo event: update.message.photo
    processing_msg,  \* per photo event: id of the status message, 0 = unbound
    photo,           \* per photo event: the selected variant
    photo_bytes,     \* per photo event: the downloaded octets
    output,          \* per photo event: what replicate_client.run produced (local to process_image)
    remote_result,   \* per photo event: how the remote call ended (history)
    result_url,      \* per photo event: what process_image returned
    processed_image, \* per photo event: what download_image returned
    exc,             \* per photo event: the call whose exception is in flight / was handled last
    messages,        \* the conversation: every message the bot sent, by id
    remoteCalls,     \* every invocation of replicate_client.run
    fetches,         \* every invocation of download_image
    log,             \* logger.error records
    cmdCount,        \* number of command and callback updates taken so far
    cbPc,            \* handle_callback: the next awaited call
    cbData,          \* handle_callback: query.data
    cbMsg,           \* handle_callback: id of the message whose button was pressed
    cbAnswered       \* handle_callback: whether query.answer() went through

vars ==
    << mainPc, telegramEnv, replicateEnv, envWrites, stdout, exitCode, bot,
       pc, update, processing_msg, photo, photo_bytes, output, remote_result,
       result_url, processed_image, exc, messages, remoteCalls, fetches, log,
       cmdCount, cbPc, cbData, cbMsg, cbAnswered >>

mainVars == << mainPc, telegramEnv, replicateEnv, envWrites, stdout, exitCode, bot >>
localVars ==
    << update, processing_msg, photo, photo_bytes, output, remote_result,
       result_url, processed_image >>
worldVars == << messages, remoteCalls, fetches >>
cmdVars == << cmdCount, cbPc, cbData, cbMsg, cbAnswered >>

NoBot == [constructed |-> FALSE, telegram_token |-> None, replicate_token |-> None,
          handlers |-> {}]
NoVariant == [width |-> 0, height |-> 0]

Line(text, arg) == <<text, arg>>
BoolStr(b) == IF b THEN "True" ELSE "False"
LenStr(t) == IF t = "tok" THEN "3" ELSE "0"

Init ==
    /\ mainPc = "main"
    /\ telegramEnv \in TokenValues
    /\ replicateEnv \in TokenValues
    /\ envWrites = 0
    /\ stdout = <<>>
    /\ exitCode = -1
    /\ bot = NoBot
    /\ pc = [e \in Events |-> "idle"]
    /\ update = [e \in Events |-> <<>>]
    /\ processing_msg = [e \in Events |-> 0]
    /\ photo = [e \in Events |-> NoVariant]
    /\ photo_bytes = [e \in Events |-> <<>>]
    /\ output = [e \in Events |-> NoOutput]
    /\ remote_result = [e \in Events |-> "unset"]
    /\ result_url = [e \in Events |-> Unbound]
    /\ processed_image = [e \in Events |-> <<>>]
    /\ exc = [e \in Events |-> "none"]
    /\ messages = <<>>
    /\ remoteCalls = <<>>
    /\ fetches = <<>>
    /\ log = <<>>
    /\ cmdCount = 0
    /\ cbPc = "idle"
    /\ cbData = None
    /\ cbMsg = 0
    /\ cbAnswered = FALSE

\* --------------------------------------------------------------- __main__
DebugLines(t, r) ==
    << Line("Debug Info:", ""),
       Line("Telegram token exists:", BoolStr(Truthy(t))),
       Line("Telegram token length:", LenStr(t)),
       Line("Replicate token exists:", BoolStr(Truthy(r))),
       Line("Replicate token length:", LenStr(r)) >>

MissingLines ==
    << Line("Missing required environment variables!", ""),
       Line("Please set:", ""),
       Line("-", "TELEGRAM_BOT_TOKEN"),
       Line("-", "REPLICATE_API_TOKEN") >>

\* Lines 192-207: read the two secrets, print the debug block, and exit(1)
\* when one is missing.
MainCheck ==
    /\ mainPc = "main"
    /\ IF MissingSecrets(telegramEnv, replicateEnv)
       THEN /\ stdout' = stdout \o DebugLines(telegramEnv, replicateEnv) \o MissingLines
            /\ exitCode' = 1
            /\ mainPc' = "exited"
       ELSE /\ stdout' = stdout \o DebugLines(telegramEnv, replicateEnv)
            /\ exitCode' = exitCode
            /\ mainPc' = "create"
    /\ UNCHANGED << telegramEnv, replicateEnv, envWrites, bot >>
    /\ UNCHANGED << pc, localVars, exc, worldVars, log, cmdVars >>

\* Lines 210-215 with __init__ (19-29) and _setup_handlers (31-36): the
\* constructor writes the environment, builds the client and the application
\* and registers the four handlers; run() then starts polling.
MainCreateOk ==
    /\ mainPc = "create"
    /\ replicateEnv' = replicateEnv
    /\ envWrites' = envWrites + 1
    /\ bot' = [constructed |-> TRUE, telegram_token |-> telegramEnv,
               replicate_token |-> replicateEnv, handlers |-> HandlerSet]
    /\ stdout' = stdout \o << Line("Creating bot...", ""),
                              Line("Bot created successfully!", ""),
                              Line("Starting bot...", "") >>
    /\ mainPc' = "polling"
    /\ UNCHANGED << telegramEnv, exitCode >>
    /\ UNCHANGED << pc, localVars, exc, worldVars, log, cmdVars >>

\* Lines 216-219: the constructor raises (replicate.Client or the application
\* builder, both after the environment write); the error is printed and the
\* script falls off its end.
MainCreateRaises ==
    /\ mainPc = "create"
    /\ replicateEnv' = replicateEnv
    /\ envWrites' = envWrites + 1
    /\ stdout' = stdout \o << Line("Creating bot...", ""),
                              Line("Error creating/running bot:", "exception") >>
    /\ exitCode' = 0
    /\ mainPc' = "finished"
    /\ UNCHANGED << telegramEnv, bot >>
    /\ UNCHANGED << pc, localVars, exc, worldVars, log, cmdVars >>

\* ----------------------------------------------------------- handle_photo
Ended(e) == pc[e] \in {"done", "raised"}

TextMessage(e, text, isStatus, isNotice) ==
    [ kind |-> "text", text |-> text, photo |-> <<>>, reply_to |-> e,
      deleted |-> FALSE, status |-> isStatus, notice |-> isNotice, buttons |-> <<>> ]

PhotoMessage(e, bytes, caption) ==
    [ kind |-> "photo", text |-> caption, photo |-> bytes, reply_to |-> e,
      deleted |-> FALSE, status |-> FALSE, notice |-> FALSE, buttons |-> <<>> ]

\* Mutant: a raising call is awaited again instead of being reported.
Raise_Retry(e, call) ==
    /\ pc' = pc
    /\ exc' = exc

\* An awaited call raised inside the try block: control goes to the except
\* block with the exception bound.
Raise(e, call) ==
    /\ pc' = [pc EXCEPT ![e] = "except"]
    /\ exc' = [exc EXCEPT ![e] = call]

\* The frame of a handler that has returned no longer exists.
Fresh(f, e, init) == [d \in Events |-> IF d < e THEN init ELSE f[d]]

\* Lines 35 and 186: the application hands a photo update to handle_photo.
\* The application is built without concurrent updates (line 28), so an
\* update is taken only when the handler of the previous one has ended.
Dispatch(e) ==
    /\ mainPc = "polling"
    /\ pc[e] = "idle"
    /\ \A d \in Events : d < e => Ended(d)
    /\ cbPc \notin {"answer", "edit"}
    /\ \E p \in PhotoInputs : update' = [Fresh(update, e, <<>>) EXCEPT ![e] = p]
    /\ pc' = [pc EXCEPT ![e] = "ack"]
    /\ processing_msg' = Fresh(processing_msg, e, 0)
    /\ photo' = Fresh(photo, e, NoVariant)
    /\ photo_bytes' = Fresh(photo_bytes, e, <<>>)
    /\ output' = Fresh(output, e, NoOutput)
    /\ remote_result' = Fresh(remote_result, e, "unset")
    /\ result_url' = Fresh(result_url, e, Unbound)
    /\ processed_image' = Fresh(processed_image, e, <<>>)
    /\ exc' = Fresh(exc, e, "none")
    /\ UNCHANGED << mainVars, cmdVars, worldVars, log >>

\* Lines 94-97: processing_msg = await update.message.reply_text(...)
AckStatus(e) ==
    /\ pc[e] = "ack"
    /\ \/ /\ messages' = Append(messages, TextMessage(e, ProcessingText, TRUE, FALSE))
          /\ processing_msg' = [processing_msg EXCEPT ![e] = Len(messages) + 1]
          /\ pc' = [pc EXCEPT ![e] = "get_file"]
          /\ UNCHANGED exc
       \/ /\ Raise(e, "reply_text")
          /\ UNCHANGED << messages, processing_msg >>
    /\ UNCHANGED << mainVars, cmdVars, update, photo, photo_bytes, output, remote_result,
                    result_url, processed_image, remoteCalls, fetches, log >>

\* Lines 100-101: photo = update.message.photo[-1]; await photo.get_file()
GetFile(e) ==
    /\ pc[e] = "get_file"
    /\ photo' = [photo EXCEPT ![e] = SelectPhoto(update[e])]
    /\ \/ /\ pc' = [pc EXCEPT ![e] = "download"]
          /\ UNCHANGED exc
       \/ Raise(e, "get_file")
    /\ UNCHANGED << mainVars, cmdVars, update, processing_msg, photo_bytes, output,
                    remote_result, result_url, processed_image, worldVars, log >>

\* Lines 104-106: await photo_file.download_to_memory(photo_bytes)
DownloadToMemory(e) ==
    /\ pc[e] = "download"
    /\ \/ /\ photo_bytes' = [photo_bytes EXCEPT ![e] = FileBytes(photo[e])]
          /\ pc' = [pc EXCEPT ![e] = "process"]
          /\ UNCHANGED exc
       \/ /\ Raise(e, "download_to_memory")
          /\ UNCHANGED photo_bytes
    /\ UNCHANGED << mainVars, cmdVars, update, processing_msg, photo, output, remote_result,
                    result_url, processed_image, worldVars, log >>

\* Lines 109, 136-153: process_image encodes the octets and hands the request
\* to replicate_client.run on a worker thread; if the encoding raises, the
\* except block at 160-162 logs it and process_image returns None.
ProcessImageCall(e) ==
    /\ pc[e] = "process"
    /\ \/ /\ remoteCalls' = Append(remoteCalls,
                                   [event |-> e, input |-> RequestPayload(photo_bytes[e])])
          /\ pc' = [pc EXCEPT ![e] = "await_remote"]
          /\ UNCHANGED << result_url, log >>
       \/ /\ result_url' = [result_url EXCEPT ![e] = None]
          /\ log' = Append(log, "Error in Replicate API call")
          /\ pc' = [pc EXCEPT ![e] = AfterProcess(None)]
          /\ UNCHANGED remoteCalls
    /\ UNCHANGED << mainVars, cmdVars, update, processing_msg, photo, photo_bytes, output,
                    remote_result, processed_image, exc, messages, fetches >>

\* How the remote call ended, as the caller of replicate_client.run sees it.
RemoteResult(out) ==
    IF out.kind = "raise" THEN "raised"
    ELSE IF out.kind = "none" THEN "returned_none"
    ELSE IF out.kind = "nolen" THEN "returned_nolen"
    ELSE IF Len(out.items) = 0 THEN "returned_empty"
    ELSE "returned_items"

\* Mutant: a timeout around the remote call cancels the handler.
RemoteCompletes_Cancel(e) ==
    /\ pc[e] = "await_remote"
    /\ pc' = [pc EXCEPT ![e] = "cancelled"]
    /\ UNCHANGED << mainVars, cmdVars, localVars, exc, worldVars, log >>

\* Lines 142-153: the worker thread finishes replicate_client.run.
RemoteCompletes(e) ==
    /\ pc[e] = "await_remote"
    /\ \E out \in RemoteOutcomes :
        /\ output' = [output EXCEPT ![e] = out]
        /\ remote_result' = [remote_result EXCEPT ![e] = RemoteResult(out)]
    /\ pc' = [pc EXCEPT ![e] = "interpret"]
    /\ UNCHANGED << mainVars, cmdVars, update, processing_msg, photo, photo_bytes,
                    result_url, processed_image, exc, worldVars, log >>

\* Lines 155-162 and 109-111: process_image interprets the response and
\* returns to handle_photo, which branches on the reference.
ProcessImageReturn(e) ==
    /\ pc[e] = "interpret"
    /\ LET r == ProcessImageOutcome(output[e]) IN
        /\ log' = IF r.logged THEN Append(log, "Error in Replicate API call") ELSE log
        /\ IF r.raised
           THEN /\ Raise(e, "process_image")
                /\ UNCHANGED result_url
           ELSE /\ result_url' = [result_url EXCEPT ![e] = r.value]
                /\ pc' = [pc EXCEPT ![e] = AfterProcess(r.value)]
                /\ UNCHANGED exc
    /\ output' = [output EXCEPT ![e] = NoOutput]
    /\ UNCHANGED << mainVars, cmdVars, update, processing_msg, photo, photo_bytes,
                    remote_result, processed_image, worldVars >>

\* Lines 113, 164-169: processed_image = await self.download_image(result_url)
DownloadImage(e) ==
    /\ pc[e] = "fetch"
    /\ fetches' = Append(fetches, [event |-> e, url |-> result_url[e]])
    /\ \/ /\ processed_image' = [processed_image EXCEPT ![e] = UrlBytes(result_url[e])]
          /\ pc' = [pc EXCEPT ![e] = "reply_photo"]
          /\ UNCHANGED exc
       \/ /\ Raise(e, "download_image")
          /\ UNCHANGED processed_image
    /\ UNCHANGED << mainVars, cmdVars, update, processing_msg, photo, photo_bytes, output,
                    remote_result, result_url, messages, remoteCalls, log >>

\* Mutant: a failed photo reply is ignored and the handler carries on.
ReplyPhoto_Swallow(e) ==
    /\ pc[e] = "reply_photo"
    /\ \/ messages' = Append(messages, PhotoMessage(e, processed_image[e], SuccessCaption))
       \/ UNCHANGED messages
    /\ pc' = [pc EXCEPT ![e] = "delete"]
    /\ UNCHANGED << mainVars, cmdVars, localVars, exc, remoteCalls, fetches, log >>

\* Lines 116-119: await update.message.reply_photo(photo=..., caption=...)
ReplyPhoto(e) ==
    /\ pc[e] = "reply_photo"
    /\ \/ /\ messages' = Append(messages, PhotoMessage(e, processed_image[e], SuccessCaption))
          /\ pc' = [pc EXCEPT ![e] = "delete"]
          /\ UNCHANGED exc
       \/ /\ Raise(e, "reply_photo")
          /\ UNCHANGED messages
    /\ UNCHANGED << mainVars, cmdVars, localVars, remoteCalls, fetches, log >>

\* Mutant: the status message is left in place after the photo reply.
DeleteStatus_Skip(e) ==
    /\ pc[e] = "delete"
    /\ pc' = [pc EXCEPT ![e] = "done"]
    /\ UNCHANGED << mainVars, cmdVars, localVars, exc, worldVars, log >>

\* Mutant: the status message is kept in a field shared by all handlers, so
\* the one deleted is the most recent status message of the conversation.
DeleteStatus_Shared(e) ==
    /\ pc[e] = "delete"
    /\ LET latest == CHOOSE i \in 1..Len(messages) :
                        /\ messages[i].status
                        /\ \A j \in 1..Len(messages) : messages[j].status => j <= i
       IN  messages' = [messages EXCEPT ![latest].deleted = TRUE]
    /\ pc' = [pc EXCEPT ![e] = "done"]
    /\ UNCHANGED << mainVars, cmdVars, localVars, exc, remoteCalls, fetches, log >>

\* Line 122: await processing_msg.delete()
DeleteStatus(e) ==
    /\ pc[e] = "delete"
    /\ \/ /\ messages' = [messages EXCEPT ![processing_msg[e]].deleted = TRUE]
          /\ pc' = [pc EXCEPT ![e] = "done"]
          /\ UNCHANGED exc
       \/ /\ Raise(e, "delete")
          /\ UNCHANGED messages
    /\ UNCHANGED << mainVars, cmdVars, localVars, remoteCalls, fetches, log >>

\* Lines 124-126: await processing_msg.edit_text(<failure notice>)
EditStatus(e) ==
    /\ pc[e] = "edit"
    /\ \/ /\ messages' = [messages EXCEPT ![processing_msg[e]].text = FailEditText,
                                          ![processing_msg[e]].notice = TRUE]
          /\ pc' = [pc EXCEPT ![e] = "done"]
          /\ UNCHANGED exc
       \/ /\ Raise(e, "edit_text")
          /\ UNCHANGED messages
    /\ UNCHANGED << mainVars, cmdVars, localVars, remoteCalls, fetches, log >>

\* Mutant: the except block only logs.
ExceptReply_Silent(e) ==
    /\ pc[e] = "except"
    /\ log' = Append(log, "Error processing photo")
    /\ pc' = [pc EXCEPT ![e] = "done"]
    /\ UNCHANGED << mainVars, cmdVars, localVars, exc, worldVars >>

\* Lines 128-132: the except block logs the exception and replies with a new
\* message; an exception of that reply leaves handle_photo.
ExceptReply(e) ==
    /\ pc[e] = "except"
    /\ log' = Append(log, "Error processing photo")
    /\ \/ /\ messages' = Append(messages, TextMessage(e, ExceptNoticeText(exc[e]), FALSE, TRUE))
          /\ pc' = [pc EXCEPT ![e] = "done"]
          /\ UNCHANGED exc
       \/ /\ pc' = [pc EXCEPT ![e] = "raised"]
          /\ exc' = [exc EXCEPT ![e] = "except:reply_text"]
          /\ UNCHANGED messages
    /\ UNCHANGED << mainVars, cmdVars, localVars, remoteCalls, fetches >>

\* ------------------------------------- start_command, help_command, handle_callback
CallbackData == {"send_photo", "other"}

\* Lines 57-60: the inline keyboard of the welcome message.
StartKeyboard == << [text |-> ButtonLabel, callback_data |-> "send_photo"] >>

CommandReply(text, keyboard) ==
    [ kind |-> "text", text |-> text, photo |-> <<>>, reply_to |-> 0,
      deleted |-> FALSE, status |-> FALSE, notice |-> FALSE, buttons |-> keyboard ]

\* A handler is running: the application takes the next update only when it
\* has ended (line 28 builds the application without concurrent updates).
Busy ==
    \/ \E e \in Events : pc[e] \notin {"idle", "done", "raised"}
    \/ cbPc \in {"answer", "edit"}

photoVars == << pc, localVars, exc >>

\* Lines 38-62: start_command replies with the welcome text and the keyboard;
\* an exception of reply_text leaves the handler.
StartCommand ==
    /\ mainPc = "polling"
    /\ ~Busy
    /\ cmdCount < MaxCommands
    /\ cmdCount' = cmdCount + 1
    /\ \/ messages' = Append(messages, CommandReply(WelcomeText, StartKeyboard))
       \/ UNCHANGED messages
    /\ UNCHANGED << mainVars, photoVars, remoteCalls, fetches, log,
                    cbPc, cbData, cbMsg, cbAnswered >>

\* Lines 64-88: help_command replies with the help text.
HelpCommand ==
    /\ mainPc = "polling"
    /\ ~Busy
    /\ cmdCount < MaxCommands
    /\ cmdCount' = cmdCount + 1
    /\ \/ messages' = Append(messages, CommandReply(HelpText, <<>>))
       \/ UNCHANGED messages
    /\ UNCHANGED << mainVars, photoVars, remoteCalls, fetches, log,
                    cbPc, cbData, cbMsg, cbAnswered >>

\* Lines 36 and 171-173: a button of a message of the bot is pressed and the
\* application hands the callback query to handle_callback.
CallbackDispatch ==
    /\ mainPc = "polling"
    /\ ~Busy
    /\ cmdCount < MaxCommands
    /\ cmdCount' = cmdCount + 1
    /\ \E m \in 1..Len(messages), data \in CallbackData :
        /\ messages[m].buttons # <<>>
        /\ ~messages[m].deleted
        /\ cbMsg' = m
        /\ cbData' = data
    /\ cbPc' = "answer"
    /\ cbAnswered' = FALSE
    /\ UNCHANGED << mainVars, photoVars, worldVars, log >>

\* Mutant: the instructions are edited in whatever button was pressed.
AfterAnswer_AlwaysEdit(data) == "edit"

\* Line 176: `if query.data == "send_photo"`
AfterAnswer(data) == IF data = "send_photo" THEN "edit" ELSE "done"

\* Line 174: await query.answer()
CallbackAnswer ==
    /\ cbPc = "answer"
    /\ \/ /\ cbAnswered' = TRUE
          /\ cbPc' = AfterAnswer(cbData)
       \/ /\ cbPc' = "raised"
          /\ UNCHANGED cbAnswered
    /\ UNCHANGED << mainVars, photoVars, worldVars, log, cmdCount, cbData, cbMsg >>

\* Mutant: the callback is answered but the message is left as it was.
CallbackEdit_Skip ==
    /\ cbPc = "edit"
    /\ cbPc' = "done"
    /\ UNCHANGED << mainVars, photoVars, worldVars, log, cmdCount, cbData, cbMsg,
                    cbAnswered >>

\* Lines 177-181: await query.edit_message_text(<instructions>); the edit
\* passes no reply_markup, which removes the inline keyboard.
CallbackEdit ==
    /\ cbPc = "edit"
    /\ \/ /\ messages' = [messages EXCEPT ![cbMsg].text = InstructionsText,
                                          ![cbMsg].buttons = <<>>]
          /\ cbPc' = "done"
       \/ /\ cbPc' = "raised"
          /\ UNCHANGED messages
    /\ UNCHANGED << mainVars, photoVars, remoteCalls, fetches, log, cmdCount,
                    cbData, cbMsg, cbAnswered >>

Next ==
    \/ MainCheck
    \/ MainCreateOk
    \/ MainCreateRaises
    \/ \E e \in Events :
        \/ Dispatch(e)
        \/ AckStatus(e)
        \/ GetFile(e)
        \/ DownloadToMemory(e)
        \/ ProcessImageCall(e)
        \/ RemoteCompletes(e)
        \/ ProcessImageReturn(e)
        \/ DownloadImage(e)
        \/ ReplyPhoto(e)
        \/ DeleteStatus(e)
        \/ EditStatus(e)
        \/ ExceptReply(e)

Spec == Init /\ [][Next]_vars

\* The bot with its command and callback handlers next to the photo handler
\* of the first photo event.
NextCommands ==
    \/ MainCheck
    \/ MainCreateOk
    \/ MainCreateRaises
    \/ StartCommand
    \/ HelpCommand
    \/ CallbackDispatch
    \/ CallbackAnswer
    \/ CallbackEdit
    \/ \E e \in {Min(Events)} :
        \/ Dispatch(e)
        \/ AckStatus(e)
        \/ GetFile(e)
        \/ DownloadToMemory(e)
        \/ ProcessImageCall(e)
        \/ RemoteCompletes(e)
        \/ ProcessImageReturn(e)
        \/ DownloadImage(e)
        \/ ReplyPhoto(e)
        \/ DeleteStatus(e)
        \/ EditStatus(e)
        \/ ExceptReply(e)

SpecCommands == Init /\ [][NextCommands]_vars

\* The photo handlers run as interleaved coroutines: an update is handed to
\* handle_photo while handlers of earlier updates are still awaiting.  Each
\* update carries a single variant here, the images differ between updates.
DispatchConcurrent(e) ==
    /\ mainPc = "polling"
    /\ pc[e] = "idle"
    /\ \A d \in Events : d < e => pc[d] # "idle"
    /\ \E p \in {q \in PhotoInputs : Len(q) = 1} : update' = [update EXCEPT ![e] = p]
    /\ pc' = [pc EXCEPT ![e] = "ack"]
    /\ UNCHANGED << mainVars, cmdVars, processing_msg, photo, photo_bytes, output,
                    remote_result, result_url, processed_image, exc, worldVars, log >>

NextConcurrent ==
    \/ MainCheck
    \/ MainCreateOk
    \/ MainCreateRaises
    \/ \E e \in Events :
        \/ DispatchConcurrent(e)
        \/ AckStatus(e)
        \/ GetFile(e)
        \/ DownloadToMemory(e)
        \/ ProcessImageCall(e)
        \/ RemoteCompletes(e)
        \/ ProcessImageReturn(e)
        \/ DownloadImage(e)
        \/ ReplyPhoto(e)
        \/ DeleteStatus(e)
        \/ EditStatus(e)
        \/ ExceptReply(e)

SpecConcurrent == Init /\ [][NextConcurrent]_vars

\* One awaited call of the handler of event e returns or raises.
HandlerStep(e) ==
    \/ AckStatus(e)
    \/ GetFile(e)
    \/ DownloadToMemory(e)
    \/ ProcessImageCall(e)
    \/ RemoteCompletes(e)
    \/ ProcessImageReturn(e)
    \/ DownloadImage(e)
    \/ ReplyPhoto(e)
    \/ DeleteStatus(e)
    \/ EditStatus(e)
    \/ ExceptReply(e)

\* Every external call eventually returns or raises, and the event loop
\* resumes the coroutine that awaited it.
FairSpec == Spec /\ \A e \in Events : WF_vars(HandlerStep(e))

\* ------------------------------------------------- vocabulary of the claims
MsgIds == 1..Len(messages)
StatusMsgs(e) == {i \in MsgIds : messages[i].reply_to = e /\ messages[i].status}
PhotoReplies(e) == {i \in MsgIds : messages[i].reply_to = e /\ messages[i].kind = "photo"}
NewNotices(e) == {i \in MsgIds : messages[i].reply_to = e /\ messages[i].notice
                                  /\ ~messages[i].status}
StatusEdited(e) == \E i \in StatusMsgs(e) : messages[i].notice
StatusDeleted(e) == \E i \in StatusMsgs(e) : messages[i].deleted
NoticeShown(e) == StatusEdited(e) \/ NewNotices(e) # {}
FetchesOf(e) == {i \in 1..Len(fetches) : fetches[i].event = e}
RemoteCallsOf(e) == {i \in 1..Len(remoteCalls) : remoteCalls[i].event = e}

\* The frame of event e still exists: it was dispatched and no later event was.
Live(e) == pc[e] # "idle" /\ \A d \in Events : d > e => pc[d] = "idle"

\* The event took the failure path: a call raised, or the adapter returned
\* no usable reference.
Failed(e) ==
    \/ exc[e] # "none"
    \/ result_url[e] # Unbound /\ ~Truthy(result_url[e])

Range(q) == {q[i] : i \in 1..Len(q)}
Highest(variants) ==
    CHOOSE v \in Range(variants) :
        \A w \in Range(variants) : v.width * v.height >= w.width * w.height

\* ------------------------------------------------------------------ claims

\* C1: when the handling of a photo event has ended, exactly one status
\* message was created for it and that message was either deleted or edited
\* into a failure notice, not both and not neither.
C1_OneStatusDeletedXorEdited ==
    \A e \in Events :
        Ended(e) =>
            /\ Cardinality(StatusMsgs(e)) = 1
            /\ StatusDeleted(e) # StatusEdited(e)

\* C2: no failure escapes handle_photo: the handler never ends by raising.
C2_NoFailureEscapes ==
    \A e \in Events : pc[e] # "raised"

\* C3: on the failure path the existing status message is edited to the
\* failure notice whenever it was created; a new message is sent only when
\* no status message exists for the event.
C3_FailureEditsExistingStatus ==
    \A e \in Events :
        /\ NewNotices(e) # {} => StatusMsgs(e) = {}
        /\ (Live(e) /\ Ended(e) /\ Failed(e) /\ StatusMsgs(e) # {}) => StatusEdited(e)

\* C4 (as stated): every failure notice shown to the user has one and the
\* same text, whatever kind of failure occurred.
C4_OneFailureText ==
    \A i, j \in MsgIds :
        (messages[i].notice /\ messages[j].notice) => messages[i].text = messages[j].text

\* C4 (amended): a failure notice is one of two fixed texts chosen by the kind
\* of failure alone: a notice edited into the status message has the adapter
\* failure text and appears only when the adapter returned no reference; a
\* newly sent notice has the exception text and appears only when a call raised.
C4_FixedTextPerFailureKind ==
    /\ \A i \in MsgIds :
        messages[i].notice =>
            messages[i].text = (IF messages[i].status THEN FailEditText ELSE FailSendText)
    /\ \A e \in Events :
        Live(e) =>
            /\ StatusEdited(e) =>
                 (result_url[e] # Unbound /\ ~Truthy(result_url[e]) /\ exc[e] = "none")
            /\ NewNotices(e) # {} => exc[e] # "none"

\* Both kinds of notice are on screen: one event failed by the adapter's
\* signal, another by an exception.
C4_Witness ==
    \E i, j \in MsgIds :
        /\ messages[i].notice /\ messages[i].status
        /\ messages[j].notice /\ ~messages[j].status

\* C5: if the remote call raises, process_image returns None instead of
\* raising, handle_photo takes the failure branch (the failure notice is
\* issued, nothing is fetched, no photo is replied), and the process keeps
\* polling and can take the next event.
C5_RemoteRaiseContained ==
    \A e \in Events :
        (remote_result[e] = "raised" /\ pc[e] # "interpret") =>
            /\ result_url[e] = None
            /\ pc[e] \in {"edit", "except", "done", "raised"}
            /\ pc[e] \in {"except", "raised"} => exc[e] \in {"edit_text", "except:reply_text"}
            /\ FetchesOf(e) = {}
            /\ PhotoReplies(e) = {}
            /\ pc[e] = "done" => NoticeShown(e)
            /\ mainPc = "polling" /\ exitCode = -1
            /\ (pc[e] = "done" /\ e + 1 \in Events) => ENABLED Dispatch(e + 1)

C5_Witness ==
    \E e \in Events :
        /\ remote_result[e] = "raised"
        /\ pc[e] = "done"
        /\ StatusEdited(e)
        /\ e + 1 \in Events

\* C6: if the remote call returns an empty sequence, handle_photo takes the
\* failure branch, download_image is never invoked and no photo is replied.
C6_EmptyResultNoFetch ==
    \A e \in Events :
        (remote_result[e] = "returned_empty" /\ pc[e] # "interpret") =>
            /\ result_url[e] = None
            /\ pc[e] \in {"edit", "except", "done", "raised"}
            /\ FetchesOf(e) = {}
            /\ PhotoReplies(e) = {}

C6_Witness ==
    \E e \in Events :
        /\ remote_result[e] = "returned_empty"
        /\ pc[e] = "done"
        /\ StatusEdited(e)

\* C7: on the success path (a reference came back and no call raised) the
\* conversation got exactly one photo reply, with the success caption and the
\* fetched octets, the status message was removed after it, and no failure
\* notice was edited in or sent.
C7_SuccessPath ==
    \A e \in Events :
        /\ (Live(e) /\ pc[e] = "done" /\ exc[e] = "none" /\ Truthy(result_url[e])) =>
            /\ Cardinality(PhotoReplies(e)) = 1
            /\ \A i \in PhotoReplies(e) :
                /\ messages[i].text = SuccessCaption
                /\ messages[i].photo = UrlBytes(result_url[e])
            /\ Cardinality(StatusMsgs(e)) = 1
            /\ StatusDeleted(e)
            /\ ~NoticeShown(e)
        /\ StatusDeleted(e) => PhotoReplies(e) # {}
        /\ pc[e] = "delete" => (PhotoReplies(e) # {} /\ ~StatusDeleted(e))

C7_Witness ==
    \E e \in Events :
        /\ pc[e] = "done" /\ exc[e] = "none" /\ Truthy(result_url[e])
        /\ PhotoReplies(e) # {}

\* C8: whatever the order of the variants in the event, the variant selected,
\* downloaded, encoded and sent to the remote call is the highest-resolution one.
C8_HighestVariantSent ==
    \A e \in Events :
        Live(e) =>
            /\ photo[e] # NoVariant => photo[e] = Highest(update[e])
            /\ \A i \in RemoteCallsOf(e) :
                remoteCalls[i].input.image = DataUrl(FileBytes(Highest(update[e])))

\* C9: process_image returns exactly the first element of a non-empty
\* response, None for an empty or absent response or a raising call, and
\* never raises into handle_photo, also when the encoding step raises.
C9_ProcessImageMapping ==
    [][ \A e \in Events :
          /\ (pc[e] = "interpret" /\ pc'[e] # "interpret") =>
                /\ pc'[e] # "except" /\ exc'[e] = exc[e]
                /\ (output[e].kind = "seq" /\ Len(output[e].items) > 0) =>
                      result_url'[e] = Head(output[e].items)
                /\ (\/ output[e].kind \in {"none", "raise"}
                    \/ output[e].kind = "seq" /\ Len(output[e].items) = 0) =>
                      result_url'[e] = None
          /\ (pc[e] = "process" /\ pc'[e] \notin {"process", "await_remote"}) =>
                /\ pc'[e] # "except" /\ exc'[e] = exc[e]
                /\ result_url'[e] = None
      ]_vars

C9_Witness ==
    \E e \in Events :
        /\ remote_result[e] = "returned_items"
        /\ result_url[e] = "https://example/out.png"

\* C10: when either secret is missing or empty, the process prints the
\* diagnostic naming TELEGRAM_BOT_TOKEN and REPLICATE_API_TOKEN and exits with
\* status 1, and no bot, handler, client or environment write ever comes to be.
C10_MissingSecretsExit ==
    (telegramEnv \in {None, ""} \/ replicateEnv \in {None, ""}) =>
        /\ bot = NoBot
        /\ envWrites = 0
        /\ \A e \in Events : pc[e] = "idle"
        /\ messages = <<>> /\ remoteCalls = <<>>
        /\ mainPc \in {"main", "exited"}
        /\ mainPc = "main" => exitCode = -1
        /\ mainPc = "exited" =>
            /\ exitCode = 1
            /\ Line("-", "TELEGRAM_BOT_TOKEN") \in Range(stdout)
            /\ Line("-", "REPLICATE_API_TOKEN") \in Range(stdout)
            /\ Line("Missing required environment variables!", "") \in Range(stdout)

C10_Witness ==
    /\ mainPc = "exited"
    /\ telegramEnv = "tok"
    /\ replicateEnv = ""

\* C12: every request handed to the remote inference call carries width 768,
\* height 768, 4 inference steps and guidance scale 3.5, whatever the image.
C12_FixedParameters ==
    \A i \in 1..Len(remoteCalls) :
        /\ remoteCalls[i].input.width = 768
        /\ remoteCalls[i].input.height = 768
        /\ remoteCalls[i].input.num_inference_steps = 4
        /\ remoteCalls[i].input.guidance_scale = "3.5"

\* Two requests were made for two different images.
C12_Witness ==
    \E i, j \in 1..Len(remoteCalls) :
        remoteCalls[i].input.image # remoteCalls[j].input.image

\* C13: the delivered and the failed outcome are terminal and exclusive: an
\* event whose photo reply was delivered never gets a failure notice, and a
\* failed event never delivers.
C13_TerminalOutcomes ==
    \A e \in Events : ~(PhotoReplies(e) # {} /\ NoticeShown(e))

\* C16: nothing is retried: per photo event the remote call is invoked at
\* most once, the fetch at most once, and at most one photo reply and one
\* status message are sent.
C16_NoRetry ==
    \A e \in Events :
        /\ Cardinality(RemoteCallsOf(e)) <= 1
        /\ Cardinality(FetchesOf(e)) <= 1
        /\ Cardinality(PhotoReplies(e)) <= 1
        /\ Cardinality(StatusMsgs(e)) <= 1

\* A fetch failed and the handler ended without a second attempt.
C16_Witness ==
    \E e \in Events :
        /\ Ended(e)
        /\ exc[e] = "download_image"
        /\ Cardinality(RemoteCallsOf(e)) = 1
        /\ Cardinality(FetchesOf(e)) = 1

\* C17: the steps of one event are gated on each other: the remote call comes
\* after the status message and the downloaded octets, the fetch after a
\* returned reference, the photo reply after the fetched octets, and the
\* deletion of the status message after the photo reply.
C17_StepsGated ==
    \A e \in Events :
        /\ RemoteCallsOf(e) # {} => StatusMsgs(e) # {}
        /\ FetchesOf(e) # {} => RemoteCallsOf(e) # {}
        /\ PhotoReplies(e) # {} => FetchesOf(e) # {}
        /\ StatusDeleted(e) => PhotoReplies(e) # {}
        /\ Live(e) =>
            /\ RemoteCallsOf(e) # {} =>
                /\ photo_bytes[e] # <<>>
                /\ \A i \in RemoteCallsOf(e) :
                    remoteCalls[i].input.image = DataUrl(photo_bytes[e])
            /\ FetchesOf(e) # {} =>
                /\ Truthy(result_url[e])
                /\ \A i \in FetchesOf(e) : fetches[i].url = result_url[e]
            /\ PhotoReplies(e) # {} =>
                /\ processed_image[e] # <<>>
                /\ \A i \in PhotoReplies(e) : messages[i].photo = processed_image[e]

C17_Witness ==
    \E e \in Events :
        /\ Live(e)
        /\ StatusDeleted(e)
        /\ Cardinality(FetchesOf(e)) = 1

\* C19: no photo event ends silently: when handle_photo has returned
\* normally, the photo reply or a failure notice was sent for the event.
C19_NoSilentEnd ==
    \A e \in Events :
        pc[e] = "done" => (PhotoReplies(e) # {} \/ NoticeShown(e))

\* A handler returned after reporting an exception in a new message.
C19_Witness ==
    \E e \in Events :
        /\ pc[e] = "done"
        /\ NewNotices(e) # {}
        /\ PhotoReplies(e) = {}

\* C18: with every external call eventually returning or raising, a photo
\* event that began processing eventually ends (handle_photo returns or
\* raises); no step takes it back or aside: a started handler is never
\* un-started and an ended one stays ended.
C18_RunsToEnd ==
    /\ \A e \in Events : (pc[e] # "idle") ~> Ended(e)
    /\ [][ \A e \in Events :
             /\ pc[e] # "idle" => pc'[e] # "idle"
             /\ Ended(e) => pc'[e] = pc[e]
      ]_vars

\* An event ended after waiting for the remote call.
C18_Witness ==
    \E e \in Events :
        /\ Ended(e)
        /\ remote_result[e] # "unset"

\* C11: the reply of /start is the welcome text with exactly one inline
\* button (callback data "send_photo"); handle_callback with that data has
\* answered the query and edited the triggering message to the instructions
\* when it returns, and no step of it invokes the remote call or the fetch.
C11_StartAndButton ==
    /\ [](\A i \in MsgIds :
            /\ messages[i].text = WelcomeText =>
                /\ Len(messages[i].buttons) = 1
                /\ messages[i].buttons[1].callback_data = "send_photo"
                /\ messages[i].buttons[1].text = ButtonLabel
            /\ messages[i].buttons # <<>> => messages[i].text = WelcomeText)
    /\ []((cbPc = "done" /\ cbData = "send_photo") =>
            /\ cbAnswered
            /\ messages[cbMsg].text = InstructionsText)
    /\ [][ (cbPc = "answer" \/ cbPc = "edit") =>
             /\ remoteCalls' = remoteCalls
             /\ fetches' = fetches
             /\ photoVars' = photoVars
      ]_vars

C11_Witness ==
    /\ cbPc = "done"
    /\ cbData = "send_photo"
    /\ messages[cbMsg].text = InstructionsText
    /\ \E i \in MsgIds : messages[i].text = WelcomeText

\* C14: while a photo event waits for the remote inference call, other
\* inbound events can be taken: the next photo event can be dispatched and a
\* command can be handled.
C14_RemoteWaitDoesNotBlock ==
    \A e \in Events :
        pc[e] = "await_remote" =>
            /\ e + 1 \in Events => ENABLED Dispatch(e + 1)
            /\ ENABLED StartCommand

C20_OtherCallbackOnlyAnswers ==
    /\ [](cbData \notin {None, "send_photo"} => cbPc # "edit")
    /\ []((cbPc = "done" /\ cbData \notin {None, "send_photo"}) => cbAnswered)
    /\ [][ (cbData \notin {None, "send_photo"} /\ cbPc \in {"answer", "edit"}) =>
             /\ messages' = messages
             /\ remoteCalls' = remoteCalls
             /\ fetches' = fetches
             /\ log' = log
             /\ photoVars' = photoVars
      ]_vars

C20_Witness ==
    /\ cbPc = "done"
    /\ cbData = "other"
    /\ cbAnswered

====
